---- MODULE Spec2Model ----
(***************************************************************************)
(* switchlog: the task-interval reconstruction (src/src/tasks.py,          *)
(* convert_slack_messages_to_tasks) and the tag aggregation                *)
(* (TaskAnalysis), modelled as state machines over bounded inputs.         *)
(*                                                                         *)
(* Instants are integers; MinInstant stands for datetime(MINYEAR, 1, 1),   *)
(* the least datetime, and every message timestamp, window bound and       *)
(* wall-clock reading lies strictly after it.  A timedelta is the integer  *)
(* difference of two instants.  A text is a tuple of one-character         *)
(* strings, a tag likewise.                                                *)
(***************************************************************************)
EXTENDS Integers, Sequences, FiniteSets, Bags, TLC

VARIABLES
    pc,              \* position of the run: "input", "converted", "built", "called"
    slack_messages,  \* the list handed to convert_slack_messages_to_tasks (sorted in place)
    arrival,         \* the list as the caller passed it, before the in-place sort
    start,           \* window start
    end,             \* window end
    tasks,           \* list[Task]: the Builder's result / the Aggregator's input
    raised,          \* exception raised by the last call, "none" if it returned
    first_tag_only,  \* TaskAnalysis(tasks, first_tag_only)
    tag_to_tasks,    \* TaskAnalysis.tag_to_tasks: buckets in dict insertion order
    result,          \* what the last TaskAnalysis operation returned
    channel,         \* the channel's history as the Slack API serves it, newest first
    next_cursor,     \* get_conversation_history: next_cursor (0 for None)
    has_more,        \* get_conversation_history: has_more
    found_preceeding_older_count,  \* get_conversation_history: messages older than oldest seen so far
    today,           \* the date datetime.now() falls on, Monday of the first week being 1
    state,           \* contents of STATE_FILE (0 for None)
    docs,            \* the Google Docs created so far, each as its inserted texts top to bottom
    titles,          \* the week each Google Doc was created for (its title), by document id
    processed_events,  \* slack_task_logger.processed_events
    calls,           \* bag of the event ids process_task_message / process_todo_message were called for
    posted,          \* the warnings sent with chat_postMessage, in order
    requests,        \* number of requests slack_events has served
    sheet_state,     \* contents of WEEK_SHEET_STATE_FILE: the weeks that have a sheet
    sheets           \* the weekly Google Sheets created so far, each as the rows of Raw_Log

fetchVars == <<channel, next_cursor, has_more, found_preceeding_older_count>>

loggerVars == <<today, state, docs, titles>>

serverVars == <<processed_events, calls, posted, requests, sheet_state, sheets>>

otherVars == <<fetchVars, loggerVars, serverVars>>

vars == <<pc, slack_messages, arrival, start, end, tasks, raised,
          first_tag_only, tag_to_tasks, result, fetchVars, loggerVars, serverVars>>

(* no fetch in progress *)
FetchIdle ==
    /\ channel = <<>>
    /\ next_cursor = 0
    /\ has_more = TRUE
    /\ found_preceeding_older_count = 0

(* load_state() when STATE_FILE does not exist *)
DefaultState == [current_doc_id |-> 0, week_start |-> 0, days_written |-> <<>>]

(* the logger has not been used *)
LoggerIdle ==
    /\ today = 1
    /\ state = DefaultState
    /\ docs = <<>>
    /\ titles = <<>>

(* the server has just started and no weekly sheet exists *)
ServerIdle ==
    /\ processed_events = {}
    /\ calls = EmptyBag
    /\ posted = <<>>
    /\ requests = 0
    /\ sheet_state = <<>>
    /\ sheets = <<>>

OthersIdle == FetchIdle /\ LoggerIdle /\ ServerIdle

----------------------------------------------------------------------------
(* Bounds of the model *)

MaxMsgs == 3
MaxTime == 3
MaxTasks == 2
MaxTaskTime == 2
MaxTextLen == 5

(* datetime(MINYEAR, 1, 1, tzinfo=pytz.utc) *)
MinInstant == 0

(* message timestamps and window bounds *)
Times == 1..MaxTime
(* start and end of the Tasks handed to the Aggregator directly *)
TaskTimes == 1..MaxTaskTime
(* datetime.now(pytz.utc): before, among or after the Tasks *)
Nows == 1..(MaxTaskTime + 1)

----------------------------------------------------------------------------
(* Texts and tag extraction *)

Whitespace == {" ", "\t", "\n"}

(* "]x[", "[a]", "x[b, a][c]" *)
Texts ==
    { <<"]", "x", "[">>,
      <<"[", "a", "]">>,
      <<"x", "[", "b", ",", " ", "a", "]", "[", "c", "]">> }

(* the characters a text is made of in the text-driven runs *)
Alphabet == {"[", "]", ",", " ", "\n", "a", "b"}

(* every text of at most MaxTextLen characters *)
AllTexts == UNION { [1..n -> Alphabet] : n \in 0..MaxTextLen }

SubText(s, i, j) == [k \in 1..(j - i + 1) |-> s[i + k - 1]]

(* re.findall(r"\[(.*?)\]", s): the positions where a match can begin.     *)
(* A match begins at a "[" that is followed by a "]" with no newline in    *)
(* between ("." does not match a newline).                                 *)
MatchStarts(s) ==
    { i \in 1..Len(s) :
        /\ s[i] = "["
        /\ \E j \in (i + 1)..Len(s) :
              /\ s[j] = "]"
              /\ \A k \in (i + 1)..(j - 1) : s[k] # "\n" }

Min(S) == CHOOSE x \in S : \A y \in S : x <= y
Max(S) == CHOOSE x \in S : \A y \in S : x >= y

(* matches[0]: the lazy group of the leftmost match, up to the first "]" *)
FirstMatch(s) ==
    LET i == Min(MatchStarts(s))
        j == Min({ k \in (i + 1)..Len(s) : s[k] = "]" })
    IN  SubText(s, i + 1, j - 1)

(* str.strip() *)
Strip(s) ==
    LET keep == { k \in 1..Len(s) : s[k] \notin Whitespace }
    IN  IF keep = {} THEN <<>> ELSE SubText(s, Min(keep), Max(keep))

(* str.split(","): always at least one item *)
RECURSIVE SplitComma(_)
SplitComma(s) ==
    LET commas == { k \in 1..Len(s) : s[k] = "," }
    IN  IF commas = {} THEN <<s>>
        ELSE LET c == Min(commas)
             IN  <<SubText(s, 1, c - 1)>> \o SplitComma(SubText(s, c + 1, Len(s)))

(* variant: without the early return, the whole text is split *)
ExtractTagsNoEarlyReturn(s) ==
    LET items == SplitComma(IF MatchStarts(s) = {} THEN s ELSE FirstMatch(s))
    IN  [k \in 1..Len(items) |-> Strip(items[k])]

extract_tags_from_string(s) ==
    IF MatchStarts(s) = {} THEN <<>>
    ELSE LET items == SplitComma(FirstMatch(s))
         IN  [k \in 1..Len(items) |-> Strip(items[k])]

----------------------------------------------------------------------------
(* SlackMessage and list.sort() *)

SlackMessage == [timestamp : Times, text : Texts]

MessageLists == UNION { [1..n -> SlackMessage] : n \in 0..MaxMsgs }

(* variant: "not greater" taken for "less" *)
MsgLe(a, b) == a.timestamp <= b.timestamp

(* SlackMessage.__lt__ *)
MsgLt(a, b) == a.timestamp < b.timestamp

(* list.sort() is stable: x goes after every element that is not greater *)
RECURSIVE InsertMsg(_, _)
InsertMsg(sorted, x) ==
    IF sorted = <<>> THEN <<x>>
    ELSE IF MsgLt(x, sorted[Len(sorted)])
         THEN Append(InsertMsg(SubSeq(sorted, 1, Len(sorted) - 1), x), sorted[Len(sorted)])
         ELSE Append(sorted, x)

RECURSIVE SortMsgs(_)
SortMsgs(l) ==
    IF l = <<>> THEN <<>>
    ELSE InsertMsg(SortMsgs(SubSeq(l, 1, Len(l) - 1)), l[Len(l)])

----------------------------------------------------------------------------
(* convert_slack_messages_to_tasks *)

(* variant: the window start goes to the first message that has tags *)
CurStartFirstKept(msgs, i, s) ==
    IF \A k \in 1..(i - 1) : Len(extract_tags_from_string(msgs[k].text)) = 0
    THEN s
    ELSE msgs[i].timestamp

(* variant: every interval starts at the message's own timestamp *)
CurStartOwn(msgs, i, s) == msgs[i].timestamp

CurStart(msgs, i, s) == IF i = 1 THEN s ELSE msgs[i].timestamp

(* variant: every interval runs to the window end *)
CurEndWindow(msgs, i, e) == e

CurEnd(msgs, i, e) == IF i < Len(msgs) THEN msgs[i + 1].timestamp ELSE e

(* variant: no "if len(tags) == 0: continue" *)
RECURSIVE TasksFromKeepAll(_, _, _, _)
TasksFromKeepAll(msgs, i, s, e) ==
    IF i > Len(msgs) THEN <<>>
    ELSE <<[start |-> CurStart(msgs, i, s),
            end |-> CurEnd(msgs, i, e),
            tags |-> extract_tags_from_string(msgs[i].text)]>>
         \o TasksFromKeepAll(msgs, i + 1, s, e)

(* the loop body for the messages i..n, in order *)
RECURSIVE TasksFrom(_, _, _, _)
TasksFrom(msgs, i, s, e) ==
    IF i > Len(msgs) THEN <<>>
    ELSE LET tags == extract_tags_from_string(msgs[i].text)
             rest == TasksFrom(msgs, i + 1, s, e)
         IN  IF Len(tags) = 0 THEN rest
             ELSE <<[start |-> CurStart(msgs, i, s),
                     end |-> CurEnd(msgs, i, e),
                     tags |-> tags]>> \o rest

convert_slack_messages_to_tasks ==
    /\ pc = "input"
    /\ slack_messages' = SortMsgs(slack_messages)
    /\ tasks' = TasksFrom(slack_messages', 1, start, end)
    /\ raised' = "none"
    /\ pc' = "converted"
    /\ UNCHANGED <<arrival, start, end, first_tag_only, tag_to_tasks, result>>
    /\ UNCHANGED otherVars

NoResult == [op |-> "none"]

InitBuild ==
    /\ pc = "input"
    /\ slack_messages \in MessageLists
    /\ arrival = slack_messages
    /\ start \in Times
    /\ end \in Times
    /\ tasks = <<>>
    /\ raised = "none"
    /\ first_tag_only = TRUE
    /\ tag_to_tasks = <<>>
    /\ result = NoResult
    /\ OthersIdle

NextBuild == convert_slack_messages_to_tasks

Spec == InitBuild /\ [][NextBuild]_vars

(* a second call with the same list object, as the first call left it, and *)
(* the same window                                                         *)
convert_again ==
    /\ pc = "converted"
    /\ slack_messages' = SortMsgs(slack_messages)
    /\ tasks' = TasksFrom(slack_messages', 1, start, end)
    /\ raised' = "none"
    /\ pc' = "reconverted"
    /\ UNCHANGED <<arrival, start, end, first_tag_only, tag_to_tasks, result>>
    /\ UNCHANGED otherVars

InitRerun ==
    /\ pc = "input"
    /\ slack_messages \in MessageLists
    /\ arrival = slack_messages
    /\ start \in {1, MaxTime}
    /\ end \in {1, MaxTime}
    /\ tasks = <<>>
    /\ raised = "none"
    /\ first_tag_only = TRUE
    /\ tag_to_tasks = <<>>
    /\ result = NoResult
    /\ OthersIdle

NextRerun == convert_slack_messages_to_tasks \/ convert_again

SpecRerun == InitRerun /\ [][NextRerun]_vars

(* one message with any text, in a fixed window *)
InitText ==
    /\ pc = "input"
    /\ \E s \in AllTexts : slack_messages = <<[timestamp |-> 1, text |-> s]>>
    /\ arrival = slack_messages
    /\ start = 1
    /\ end = 2
    /\ tasks = <<>>
    /\ raised = "none"
    /\ first_tag_only = TRUE
    /\ tag_to_tasks = <<>>
    /\ result = NoResult
    /\ OthersIdle

SpecText == InitText /\ [][NextBuild]_vars

----------------------------------------------------------------------------
(* Properties of convert_slack_messages_to_tasks *)

IsSortedByTimestamp(l) ==
    \A i \in 1..(Len(l) - 1) : l[i].timestamp <= l[i + 1].timestamp

Tagged(m) == Len(extract_tags_from_string(m.text)) > 0

TaggedIndexes(l) == { i \in 1..Len(l) : Tagged(l[i]) }

OrderedByStart(ts) ==
    \A i \in 1..(Len(ts) - 1) : ts[i].start <= ts[i + 1].start

WithinWindow(ts) ==
    \A i \in 1..Len(ts) : start <= ts[i].start /\ ts[i].end <= end

AdjacentDisjoint(ts) ==
    \A i \in 1..(Len(ts) - 1) : ts[i].end <= ts[i + 1].start

(* every message after the first, in timestamp order, lies in the window *)
LaterMessagesInWindow ==
    \A i \in 2..Len(slack_messages) :
        start <= slack_messages[i].timestamp /\ slack_messages[i].timestamp <= end

(* C1 as stated: for any sorted event list and any window [start, end] the *)
(* returned Tasks are ordered, each lies within the window, and adjacent   *)
(* Tasks do not overlap.                                                   *)
C1_PartitionAnyEvents ==
    (pc = "converted" /\ IsSortedByTimestamp(arrival) /\ start <= end)
        => /\ OrderedByStart(tasks)
           /\ WithinWindow(tasks)
           /\ AdjacentDisjoint(tasks)

(* C1 amended: the partition property holds for every event list in which  *)
(* each event after the first (in timestamp order) has its timestamp in    *)
(* [start, end].                                                           *)
C1_PartitionInWindow ==
    (pc = "converted" /\ LaterMessagesInWindow)
        => /\ OrderedByStart(tasks)
           /\ WithinWindow(tasks)
           /\ AdjacentDisjoint(tasks)

(* two kept Tasks with a dropped untagged message between them *)
C1_Witness ==
    /\ pc = "converted"
    /\ IsSortedByTimestamp(arrival)
    /\ LaterMessagesInWindow
    /\ Len(slack_messages) = 3
    /\ Len(tasks) = 2
    /\ tasks[1].end < tasks[2].start

(* C2: every Task the Builder constructs has positive length: start <= end *)
(* and never a zero-length or negative-length interval (stated here for    *)
(* windows of positive length only).                                       *)
C2_PositiveLength ==
    (pc = "converted" /\ start < end)
        => \A i \in 1..Len(tasks) : tasks[i].start < tasks[i].end

(* C9: a call with window start > window end is rejected with an           *)
(* InvalidWindowError and returns no Tasks.                                *)
C9_InvalidWindowRejected ==
    (pc = "converted" /\ start > end /\ TaggedIndexes(arrival) # {})
        => raised = "InvalidWindowError" /\ tasks = <<>>

(* some "[" comes before some "]" *)
HasBracketedGroup(s) ==
    \E i \in 1..Len(s) : \E j \in (i + 1)..Len(s) : s[i] = "[" /\ s[j] = "]"

(* C10: an event whose text has no bracketed group contributes no Task,    *)
(* and the number of returned Tasks is the number of events whose text     *)
(* yields at least one tag.                                                *)
C10_TagDrop ==
    pc = "converted"
        => /\ Len(tasks) = Cardinality(TaggedIndexes(arrival))
           /\ Len(tasks) <= Cardinality({ i \in 1..Len(arrival) :
                                             HasBracketedGroup(arrival[i].text) })
           /\ \A i \in 1..Len(tasks) :
                 \E k \in 1..Len(arrival) :
                    /\ HasBracketedGroup(arrival[k].text)
                    /\ tasks[i].tags = extract_tags_from_string(arrival[k].text)

(* a tagged and an untagged event: one Task for two events *)
C10_Witness ==
    /\ pc = "converted"
    /\ Len(arrival) = 3
    /\ Len(tasks) = 1
    /\ \E i \in 1..3 : ~HasBracketedGroup(arrival[i].text)

(* C11: every Task the Builder returns has a non-empty tags sequence, also *)
(* for a text whose first bracketed group is empty or holds only commas   *)
(* and whitespace.                                                        *)
C11_TagsNonEmpty ==
    pc # "input" => \A i \in 1..Len(tasks) : Len(tasks[i].tags) >= 1

(* "[ , ]": a Task whose two tags are both the empty string *)
C11_Witness ==
    /\ pc = "converted"
    /\ arrival[1].text = <<"[", " ", ",", " ", "]">>
    /\ Len(tasks) = 1
    /\ tasks[1].tags = << <<>>, <<>> >>

(* the messages of l with timestamp t, in the order of l *)
AtTime(l, t) == LET At(m) == m.timestamp = t IN SelectSeq(l, At)

(* the Task of the message at index k of the sorted list *)
TaskOfIndex(k) ==
    [start |-> IF k = 1 THEN start ELSE slack_messages[k].timestamp,
     end |-> IF k = Len(slack_messages) THEN end ELSE slack_messages[k + 1].timestamp,
     tags |-> extract_tags_from_string(slack_messages[k].text)]

(* the i-th least element of the set of numbers S *)
RECURSIVE NthOf(_, _)
NthOf(S, i) == IF i = 1 THEN Min(S) ELSE NthOf(S \ {Min(S)}, i - 1)

(* C14: the Builder sorts whatever order the caller passed: the events are *)
(* processed in ascending timestamp order, events with equal timestamps    *)
(* keep their arrival order, and the Tasks are those of the tagged events  *)
(* in that order (so lists that differ only in the order of events with    *)
(* different timestamps give the same Tasks).                              *)
C14_StableAscendingOrder ==
    pc = "converted"
        => /\ IsSortedByTimestamp(slack_messages)
           /\ Len(slack_messages) = Len(arrival)
           /\ \A t \in Times : AtTime(slack_messages, t) = AtTime(arrival, t)
           /\ LET K == TaggedIndexes(slack_messages)
              IN  tasks = [i \in 1..Cardinality(K) |-> TaskOfIndex(NthOf(K, i))]

(* an unsorted list with two different tagged events at one timestamp *)
C14_Witness ==
    /\ pc = "converted"
    /\ Len(arrival) = 3
    /\ arrival[1].timestamp = arrival[2].timestamp
    /\ arrival[1].text # arrival[2].text
    /\ arrival[3].timestamp < arrival[1].timestamp
    /\ \A i \in 1..3 : Tagged(arrival[i])
    /\ slack_messages = <<arrival[3], arrival[1], arrival[2]>>
    /\ tasks[2].tags # tasks[3].tags

(* C18: a second run on the same list object and window returns the same   *)
(* Task sequence as the first.                                             *)
C18_RerunSameTasks ==
    [][(pc = "converted" /\ pc' = "reconverted")
          => tasks' = tasks /\ slack_messages' = slack_messages]_vars

(* the first run reordered the caller's list; the second run has finished *)
C18_Witness ==
    /\ pc = "reconverted"
    /\ slack_messages # arrival
    /\ Len(tasks) >= 2
    /\ \E i \in 1..(Len(arrival) - 1) : arrival[i].timestamp = arrival[i + 1].timestamp

(* the "[" that open a bracketed group: one with a "]" somewhere after it *)
GroupOpens(s) ==
    { i \in 1..Len(s) : s[i] = "[" /\ \E j \in (i + 1)..Len(s) : s[j] = "]" }

(* the trimmed comma-separated items of the first bracketed group of s *)
FirstGroupItems(s) ==
    IF GroupOpens(s) = {} THEN <<>>
    ELSE LET i == Min(GroupOpens(s))
             j == Min({ k \in (i + 1)..Len(s) : s[k] = "]" })
             items == SplitComma(SubText(s, i + 1, j - 1))
         IN  [k \in 1..Len(items) |-> Strip(items[k])]

(* C15: the tags extracted from a text are exactly the trimmed             *)
(* comma-separated items of its first bracketed group, in order, and none  *)
(* when it has no bracketed group.                                         *)
C15_FirstGroupOnly ==
    pc = "converted"
        => LET expected == FirstGroupItems(slack_messages[1].text)
           IN  IF expected = <<>> THEN tasks = <<>>
               ELSE Len(tasks) = 1 /\ tasks[1].tags = expected

Contiguous(ts) ==
    /\ \A i \in 1..(Len(ts) - 1) : ts[i].end = ts[i + 1].start
    /\ ts[1].start = start
    /\ ts[Len(ts)].end = end

(* C3 as stated: the returned Tasks are contiguous and cover the window.   *)
C3_ContiguousCover ==
    (pc = "converted" /\ tasks # <<>>) => Contiguous(tasks)

(* C3 amended: the returned Tasks are contiguous and cover the window when *)
(* every event yields at least one tag (no event is dropped).              *)
C3_ContiguousWhenAllTagged ==
    (/\ pc = "converted"
     /\ slack_messages # <<>>
     /\ \A i \in 1..Len(slack_messages) : Tagged(slack_messages[i]))
        => /\ Len(tasks) = Len(slack_messages)
           /\ Contiguous(tasks)

C3_Witness ==
    /\ pc = "converted"
    /\ Len(slack_messages) = 3
    /\ \A i \in 1..3 : Tagged(slack_messages[i])
    /\ start < slack_messages[2].timestamp
    /\ slack_messages[2].timestamp < slack_messages[3].timestamp
    /\ slack_messages[3].timestamp <= end
    /\ Len(tasks) = 3
    /\ tasks[2].end = tasks[3].start

(* C4: the first returned Task starts at the window start when the event   *)
(* at sorted index 0 is tagged; otherwise it starts at the timestamp of    *)
(* the event that produced it (the first tagged event).                    *)
C4_Boundary ==
    (pc = "converted" /\ tasks # <<>>)
        => LET k == Min(TaggedIndexes(slack_messages))
           IN  tasks[1].start = IF k = 1 THEN start ELSE slack_messages[k].timestamp

(* index 0 untagged: the first Task starts at its own event, not at start  *)
C4_Witness ==
    /\ pc = "converted"
    /\ Len(slack_messages) >= 2
    /\ ~Tagged(slack_messages[1])
    /\ tasks # <<>>
    /\ tasks[1].start # start
    /\ tasks[1].start = slack_messages[Min(TaggedIndexes(slack_messages))].timestamp

----------------------------------------------------------------------------
(* Task, TagTasks *)

TagA == <<"a">>
TagB == <<"b">>

(* tags of a Task: never empty (str.split returns at least one item) *)
TagLists == { <<TagA>>, <<TagB, TagA>>, <<TagA, TagA>> }

Task == [start : TaskTimes, end : TaskTimes, tags : TagLists]

TaskLists == UNION { [1..n -> Task] : n \in 0..MaxTasks }

(* A Task whose tags list is also reachable from elsewhere carries the     *)
(* identity of that list object in a field "list"; a Task without the      *)
(* field is the only holder of its list.                                   *)
HasSharedList(t) == "list" \in DOMAIN t

(* variant: the copy keeps the same tags list object (tags=self.tags) *)
TaskCopyShallow(t) == t

(* Task.copy(): a new Task with a deep copy of the tags list *)
TaskCopy(t) == [start |-> t.start, end |-> t.end, tags |-> t.tags]

(* Task.duration *)
Duration(t) == t.end - t.start

(* Task.__lt__ *)
TaskLt(a, b) == a.start < b.start

RECURSIVE InsertTask(_, _)
InsertTask(sorted, x) ==
    IF sorted = <<>> THEN <<x>>
    ELSE IF TaskLt(x, sorted[Len(sorted)])
         THEN Append(InsertTask(SubSeq(sorted, 1, Len(sorted) - 1), x), sorted[Len(sorted)])
         ELSE Append(sorted, x)

(* self.tasks.sort() *)
RECURSIVE SortTasks(_)
SortTasks(l) ==
    IF l = <<>> THEN <<>>
    ELSE InsertTask(SortTasks(SubSeq(l, 1, Len(l) - 1)), l[Len(l)])

(* TagTasks.duration *)
RECURSIVE SumDurations(_)
SumDurations(l) ==
    IF l = <<>> THEN 0 ELSE Duration(l[1]) + SumDurations(Tail(l))

BucketDuration(b) == SumDurations(b.tasks)

----------------------------------------------------------------------------
(* TaskAnalysis.__init__ *)

(* add_entry(tag, task) on the dict d, kept as the list of its buckets in  *)
(* insertion order                                                         *)
(* variant: an existing bucket is overwritten instead of appended to *)
AddEntryOverwrite(d, tag, task) ==
    IF \E i \in 1..Len(d) : d[i].tag = tag
    THEN [i \in 1..Len(d) |->
            IF d[i].tag = tag
            THEN [d[i] EXCEPT !.tasks = <<TaskCopy(task)>>]
            ELSE d[i]]
    ELSE Append(d, [tag |-> tag, tasks |-> <<TaskCopy(task)>>])

(* variant: a new bucket goes to the front *)
AddEntryPrepend(d, tag, task) ==
    IF \E i \in 1..Len(d) : d[i].tag = tag
    THEN [i \in 1..Len(d) |->
            IF d[i].tag = tag
            THEN [d[i] EXCEPT !.tasks = Append(@, TaskCopy(task))]
            ELSE d[i]]
    ELSE <<[tag |-> tag, tasks |-> <<TaskCopy(task)>>]>> \o d

AddEntry(d, tag, task) ==
    IF \E i \in 1..Len(d) : d[i].tag = tag
    THEN [i \in 1..Len(d) |->
            IF d[i].tag = tag
            THEN [d[i] EXCEPT !.tasks = Append(@, TaskCopy(task))]
            ELSE d[i]]
    ELSE Append(d, [tag |-> tag, tasks |-> <<TaskCopy(task)>>])

(* for tag in task.tags: add_entry(tag, task.copy()) *)
RECURSIVE AddAllTags(_, _, _)
AddAllTags(d, task, k) ==
    IF k > Len(task.tags) THEN d
    ELSE AddAllTags(AddEntry(d, task.tags[k], TaskCopy(task)), task, k + 1)

(* variant: the mode is ignored, only the first tag gets the Task *)
AddTaskFirstTagAlways(d, task, fto) == AddEntry(d, task.tags[1], TaskCopy(task))

AddTask(d, task, fto) ==
    IF fto THEN AddEntry(d, task.tags[1], TaskCopy(task))
    ELSE AddAllTags(d, task, 1)

(* for task in tasks: ... *)
RECURSIVE BuildBuckets(_, _, _)
BuildBuckets(d, ts, fto) ==
    IF ts = <<>> THEN d
    ELSE BuildBuckets(AddTask(d, ts[1], fto), Tail(ts), fto)

TaskAnalysisInit(fto) ==
    /\ pc = "converted"
    /\ first_tag_only' = fto
    /\ tag_to_tasks' = BuildBuckets(<<>>, tasks, fto)
    /\ raised' = "none"
    /\ result' = NoResult
    /\ pc' = "built"
    /\ UNCHANGED <<slack_messages, arrival, start, end, tasks>>
    /\ UNCHANGED otherVars

----------------------------------------------------------------------------
(* TaskAnalysis operations *)

(* first_task() and last_task() sort the bucket in place *)
SortedBuckets(d) == [i \in 1..Len(d) |-> [d[i] EXCEPT !.tasks = SortTasks(@)]]

FirstTask(b) == SortTasks(b.tasks)[1]
LastTask(b) == LET l == SortTasks(b.tasks) IN l[Len(l)]

MinOf(a, b) == IF b < a THEN b ELSE a
MaxOf(a, b) == IF b > a THEN b ELSE a

(* the loop of analysis_duration over the buckets k..n *)
RECURSIVE AnalysisStart(_, _, _)
AnalysisStart(d, k, acc) ==
    IF k > Len(d) THEN acc
    ELSE AnalysisStart(d, k + 1, MinOf(acc, FirstTask(d[k]).start))

RECURSIVE AnalysisEnd(_, _, _)
AnalysisEnd(d, k, acc) ==
    IF k > Len(d) THEN acc
    ELSE AnalysisEnd(d, k + 1, MaxOf(acc, LastTask(d[k]).end))

(* variant: the analysis window instead of the span of the Tasks *)
AnalysisDurationWindow(d, now) == end - start

AnalysisDurationOf(d, now) == AnalysisEnd(d, 1, MinInstant) - AnalysisStart(d, 1, now)

(* TaskAnalysis.all_tasks_duration *)
RECURSIVE AllTasksDurationOf(_)
AllTasksDurationOf(d) ==
    IF d = <<>> THEN 0 ELSE BucketDuration(d[1]) + AllTasksDurationOf(Tail(d))

analysis_duration(now) ==
    /\ pc \in {"built", "called"}
    /\ tag_to_tasks' = SortedBuckets(tag_to_tasks)
    /\ result' = [op |-> "analysis_duration", value |-> AnalysisDurationOf(tag_to_tasks, now)]
    /\ raised' = "none"
    /\ pc' = "called"
    /\ UNCHANGED <<slack_messages, arrival, start, end, tasks, first_tag_only>>
    /\ UNCHANGED otherVars

all_tasks_duration ==
    /\ pc \in {"built", "called"}
    /\ result' = [op |-> "all_tasks_duration", value |-> AllTasksDurationOf(tag_to_tasks)]
    /\ raised' = "none"
    /\ pc' = "called"
    /\ UNCHANGED <<slack_messages, arrival, start, end, tasks, first_tag_only, tag_to_tasks>>
    /\ UNCHANGED otherVars

Abs(x) == IF x < 0 THEN 0 - x ELSE x

(* round(n / d * 100, 2) in hundredths of a percent, d # 0: the exact      *)
(* quotient rounded half to even (float representation error aside)        *)
Percent(n, d) ==
    LET num == IF d < 0 THEN 0 - 10000 * n ELSE 10000 * n
        den == Abs(d)
        q == Abs(num) \div den
        r == Abs(num) - q * den
        m == IF 2 * r < den THEN q
             ELSE IF 2 * r > den THEN q + 1
             ELSE IF q % 2 = 0 THEN q ELSE q + 1
    IN  IF num < 0 THEN 0 - m ELSE m

Rows(d, total) ==
    [i \in 1..Len(d) |->
        [tag |-> d[i].tag,
         duration |-> BucketDuration(d[i]),
         percent |-> Percent(BucketDuration(d[i]), total)]]

(* TaskAnalysis.__str__ *)
Render(now) ==
    /\ pc \in {"built", "called"}
    /\ tag_to_tasks' = SortedBuckets(tag_to_tasks)
    /\ LET secs == AnalysisDurationOf(tag_to_tasks, now)
       IN  IF secs = 0
           THEN /\ raised' = "ZeroDivisionError"
                /\ result' = [op |-> "__str__"]
           ELSE /\ raised' = "none"
                /\ result' = [op |-> "__str__",
                              rows |-> Rows(tag_to_tasks, secs),
                              total |-> [duration |-> AllTasksDurationOf(tag_to_tasks),
                                         percent |-> Percent(AllTasksDurationOf(tag_to_tasks), secs)]]
    /\ pc' = "called"
    /\ UNCHANGED <<slack_messages, arrival, start, end, tasks, first_tag_only>>
    /\ UNCHANGED otherVars

InitAgg ==
    /\ pc = "converted"
    /\ slack_messages = <<>>
    /\ arrival = <<>>
    /\ start = 1
    /\ end = 1
    /\ tasks \in TaskLists
    /\ raised = "none"
    /\ first_tag_only = TRUE
    /\ tag_to_tasks = <<>>
    /\ result = NoResult
    /\ OthersIdle

NextAgg ==
    \/ \E fto \in BOOLEAN : TaskAnalysisInit(fto)
    \/ \E now \in Nows : analysis_duration(now)
    \/ all_tasks_duration
    \/ \E now \in Nows : Render(now)

SpecAgg == InitAgg /\ [][NextAgg]_vars

----------------------------------------------------------------------------
(* The caller changes the tags list of a Task held in a bucket *)

TagZ == <<"z">>

(* t after the list object that target holds got item j set to tag *)
AfterSetItem(t, target, j, tag) ==
    IF HasSharedList(t) /\ HasSharedList(target) /\ t.list = target.list
    THEN [t EXCEPT !.tags[j] = tag]
    ELSE t

(* analysis.tag_to_tasks[...].tasks[k].tags[j] = "z" *)
set_bucket_task_tag(i, k, j) ==
    /\ pc \in {"built", "called"}
    /\ i \in 1..Len(tag_to_tasks)
    /\ k \in 1..Len(tag_to_tasks[i].tasks)
    /\ j \in 1..Len(tag_to_tasks[i].tasks[k].tags)
    /\ LET target == tag_to_tasks[i].tasks[k]
       IN  /\ tasks' = [n \in 1..Len(tasks) |-> AfterSetItem(tasks[n], target, j, TagZ)]
           /\ tag_to_tasks' =
                 [b \in 1..Len(tag_to_tasks) |->
                    [tag_to_tasks[b] EXCEPT !.tasks =
                        [n \in 1..Len(@) |->
                            IF b = i /\ n = k
                            THEN [@[n] EXCEPT !.tags[j] = TagZ]
                            ELSE AfterSetItem(@[n], target, j, TagZ)]]]
    /\ pc' = "mutated"
    /\ UNCHANGED <<slack_messages, arrival, start, end, raised, first_tag_only, result>>
    /\ UNCHANGED otherVars

(* input Tasks that each hold their own tags list object, named by "list" *)
AliasTask(n) == [start : TaskTimes, end : {MaxTaskTime}, tags : TagLists, list : {n}]

AliasTaskLists ==
    UNION { { l \in [1..n -> UNION { AliasTask(k) : k \in 1..n }] :
                \A k \in 1..n : l[k].list = k } : n \in 0..MaxTasks }

InitAlias ==
    /\ pc = "converted"
    /\ slack_messages = <<>>
    /\ arrival = <<>>
    /\ start = 1
    /\ end = 1
    /\ tasks \in AliasTaskLists
    /\ raised = "none"
    /\ first_tag_only = TRUE
    /\ tag_to_tasks = <<>>
    /\ result = NoResult
    /\ OthersIdle

NextAlias ==
    \/ NextAgg
    \/ \E i \in 1..(2 * MaxTasks), k \in 1..MaxTasks, j \in 1..2 : set_bucket_task_tag(i, k, j)

SpecAlias == InitAlias /\ [][NextAlias]_vars

----------------------------------------------------------------------------
(* audit_slack: the messages of a window are converted to Tasks, the Tasks *)
(* are aggregated and the report is rendered.  Instants are counted in     *)
(* half hours, 09:00 being instant 1.                                      *)

(* 09:00, 10:30, 11:00, 12:00 *)
ChainTimes == {1, 4, 5, 7}

(* the report is rendered after the messages were posted *)
ChainNows == {7, 8}

Coding == <<"c", "o", "d", "i", "n", "g">>
Meeting == <<"m", "e", "e", "t", "i", "n", "g">>

(* "[coding]", "[meeting]", "[coding, meeting]", "no tags here" *)
TextCoding == <<"[">> \o Coding \o <<"]">>
TextMeeting == <<"[">> \o Meeting \o <<"]">>
TextBoth == <<"[">> \o Coding \o <<",", " ">> \o Meeting \o <<"]">>
TextNoTags == <<"n", "o", " ", "t", "a", "g", "s", " ", "h", "e", "r", "e">>

ChainTexts == {TextCoding, TextMeeting, TextBoth, TextNoTags}

ChainMessage == [timestamp : ChainTimes, text : ChainTexts]

(* channel histories: messages with distinct timestamps, oldest first *)
ChainLists ==
    { l \in UNION { [1..n -> ChainMessage] : n \in 0..Cardinality(ChainTimes) } :
        \A i \in 1..(Len(l) - 1) : l[i].timestamp < l[i + 1].timestamp }

InitChain ==
    /\ pc = "input"
    /\ slack_messages \in ChainLists
    /\ arrival = slack_messages
    /\ start \in ChainTimes
    /\ end \in ChainTimes
    /\ tasks = <<>>
    /\ raised = "none"
    /\ first_tag_only = TRUE
    /\ tag_to_tasks = <<>>
    /\ result = NoResult
    /\ OthersIdle

NextChain ==
    \/ convert_slack_messages_to_tasks
    \/ \E fto \in BOOLEAN : TaskAnalysisInit(fto)
    \/ \E now \in ChainNows : analysis_duration(now)
    \/ \E now \in ChainNows : Render(now)

SpecChain == InitChain /\ [][NextChain]_vars

----------------------------------------------------------------------------
(* SlackClient.get_conversation_history as audit_slack calls it:           *)
(* latest = end, oldest = start, preceeding_older_count = 1                *)

PageLimit == 2

preceeding_older_count == 1

(* channel histories: distinct timestamps, newest first *)
Channels ==
    { l \in UNION { [1..n -> SlackMessage] : n \in 0..MaxTime } :
        \A i \in 1..(Len(l) - 1) : l[i].timestamp > l[i + 1].timestamp }

(* conversations_history(latest = ...): the messages not newer than latest *)
Served(l, latest) == LET NotNewer(m) == m.timestamp <= latest IN SelectSeq(l, NotNewer)

(* variant: the message is appended before the count is tested *)
RECURSIVE ProcessPageAppendFirst(_, _, _, _)
ProcessPageAppendFirst(page, k, acc, found) ==
    IF k > Len(page) THEN [messages |-> acc, found |-> found, returned |-> FALSE]
    ELSE LET f == IF page[k].timestamp < start THEN found + 1 ELSE found
         IN  IF f > preceeding_older_count
             THEN [messages |-> Append(acc, page[k]), found |-> f, returned |-> TRUE]
             ELSE ProcessPageAppendFirst(page, k + 1, Append(acc, page[k]), f)

(* the "for message in messages" loop over one response *)
RECURSIVE ProcessPage(_, _, _, _)
ProcessPage(page, k, acc, found) ==
    IF k > Len(page) THEN [messages |-> acc, found |-> found, returned |-> FALSE]
    ELSE LET f == IF page[k].timestamp < start THEN found + 1 ELSE found
         IN  IF f > preceeding_older_count
             THEN [messages |-> acc, found |-> f, returned |-> TRUE]
             ELSE ProcessPage(page, k + 1, Append(acc, page[k]), f)

(* one round of the "while has_more" loop: a response of at most n         *)
(* messages is fetched and processed; the list is returned to audit_slack  *)
(* when the count is exceeded or nothing more is to come                   *)
get_conversation_history(n) ==
    /\ pc = "fetching"
    /\ has_more
    /\ LET served == Served(channel, end)
           from == IF next_cursor = 0 THEN 1 ELSE next_cursor
           upto == Min({from + n - 1, Len(served)})
           r == ProcessPage(SubSeq(served, from, upto), 1, slack_messages,
                            found_preceeding_older_count)
           more == upto < Len(served)
           done == r.returned \/ ~more
       IN  /\ slack_messages' = r.messages
           /\ found_preceeding_older_count' = r.found
           /\ has_more' = IF r.returned THEN has_more ELSE more
           /\ next_cursor' = IF ~r.returned /\ more THEN upto + 1 ELSE next_cursor
           /\ pc' = IF done THEN "input" ELSE "fetching"
           /\ arrival' = IF done THEN r.messages ELSE arrival
    /\ UNCHANGED <<start, end, tasks, raised, first_tag_only, tag_to_tasks, result,
                   channel, loggerVars, serverVars>>

InitFetch ==
    /\ pc = "fetching"
    /\ slack_messages = <<>>
    /\ arrival = <<>>
    /\ start \in Times
    /\ end \in Times
    /\ tasks = <<>>
    /\ raised = "none"
    /\ first_tag_only = TRUE
    /\ tag_to_tasks = <<>>
    /\ result = NoResult
    /\ channel \in Channels
    /\ next_cursor = 0
    /\ has_more = TRUE
    /\ found_preceeding_older_count = 0
    /\ LoggerIdle
    /\ ServerIdle

NextFetch == \E n \in 1..PageLimit : get_conversation_history(n)

SpecFetch == InitFetch /\ [][NextFetch]_vars

(* audit_slack: the fetched list is converted with the same window and    *)
(* TaskAnalysis(tasks) is built with its default first_tag_only = True     *)
NextAudit ==
    \/ \E n \in 1..PageLimit : get_conversation_history(n)
    \/ convert_slack_messages_to_tasks
    \/ TaskAnalysisInit(TRUE)

SpecAudit == InitFetch /\ [][NextAudit]_vars

----------------------------------------------------------------------------
(* slack_task_logger: the weekly todo document written by handle_tdo *)

MaxDay == 8
MaxWrites == 6

(* date.weekday() counts the days since Monday *)
DaysPerWeek == 7

get_week_start(date) == date - ((date - 1) % DaysPerWeek)

(* the text of a day header and of a todo entry, by the date they carry *)
Header(date) == [kind |-> "header", date |-> date]
Entry(date) == [kind |-> "entry", date |-> date]

(* insertText at location index 1: the text goes to the top of the body *)
InsertText(doc, text) == <<text>> \o doc

RECURSIVE Inserted(_)
Inserted(ds) == IF ds = <<>> THEN 0 ELSE Len(ds[1]) + Inserted(Tail(ds))

(* documents created and texts inserted so far *)
Writes(ds) == Len(ds) + Inserted(ds)

Written(days) == { days[k] : k \in 1..Len(days) }

(* the Google API calls handle_tdo makes; any of them may raise *)
Failures == {"none", "create_new_doc", "add_day_header", "append_to_doc"}

(* handle_tdo: no exception is caught, so a failing call leaves the        *)
(* earlier calls' effects in the documents and STATE_FILE unsaved          *)
handle_tdo_calls(fail) ==
    /\ LET week_start == get_week_start(today)
           new_week == state.week_start # week_start
           docs1 == IF new_week THEN Append(docs, <<>>) ELSE docs
           titles1 == IF new_week THEN Append(titles, week_start) ELSE titles
           state1 == IF new_week
                     THEN [current_doc_id |-> Len(docs) + 1,
                           week_start |-> week_start,
                           days_written |-> <<>>]
                     ELSE state
           doc_id == state1.current_doc_id
           new_day == today \notin Written(state1.days_written)
           docs2 == IF new_day
                    THEN [docs1 EXCEPT ![doc_id] = InsertText(@, Header(today))]
                    ELSE docs1
           state2 == IF new_day
                     THEN [state1 EXCEPT !.days_written = Append(@, today)]
                     ELSE state1
           docs3 == [docs2 EXCEPT ![doc_id] = InsertText(@, Entry(today))]
       IN  CASE fail = "create_new_doc" ->
                    /\ new_week
                    /\ docs' = docs /\ titles' = titles
                    /\ state' = state /\ raised' = "HttpError"
             [] fail = "add_day_header" ->
                    /\ new_day
                    /\ docs' = docs1 /\ titles' = titles1
                    /\ state' = state /\ raised' = "HttpError"
             [] fail = "append_to_doc" ->
                    /\ docs' = docs2 /\ titles' = titles1
                    /\ state' = state /\ raised' = "HttpError"
             [] OTHER ->
                    /\ docs' = docs3 /\ titles' = titles1
                    /\ state' = state2 /\ raised' = "none"

handle_tdo(fail) ==
    /\ pc = "serving"
    /\ Writes(docs) < MaxWrites
    /\ handle_tdo_calls(fail)
    /\ UNCHANGED <<pc, slack_messages, arrival, start, end, tasks, first_tag_only,
                   tag_to_tasks, result, fetchVars, today, serverVars>>

(* midnight passes *)
next_day ==
    /\ pc = "serving"
    /\ today < MaxDay
    /\ today' = today + 1
    /\ UNCHANGED <<pc, slack_messages, arrival, start, end, tasks, raised,
                   first_tag_only, tag_to_tasks, result, fetchVars, state, docs, titles,
                   serverVars>>

InitLogger ==
    /\ pc = "serving"
    /\ slack_messages = <<>>
    /\ arrival = <<>>
    /\ start = 1
    /\ end = 1
    /\ tasks = <<>>
    /\ raised = "none"
    /\ first_tag_only = TRUE
    /\ tag_to_tasks = <<>>
    /\ result = NoResult
    /\ FetchIdle
    /\ today \in 1..DaysPerWeek
    /\ state = DefaultState
    /\ docs = <<>>
    /\ titles = <<>>
    /\ ServerIdle

NextLogger ==
    \/ \E fail \in Failures : handle_tdo(fail)
    \/ next_day

SpecLogger == InitLogger /\ [][NextLogger]_vars

----------------------------------------------------------------------------
(* slack_task_logger: process_task_message and the weekly sheet *)

(* 'ts: a (b)' *)
TextTask == <<"t", "s", ":", " ", "a", " ", "(", "b", ")">>

(* ' ts:  a  ( b ) ' *)
TextTaskPadded == <<" ", "t", "s", ":", " ", " ", "a", " ", " ", "(", " ", "b", " ", ")", " ">>

(* 'TS: a (b)' *)
TextTaskUpper == <<"T", "S", ":", " ", "a", " ", "(", "b", ")">>

(* 'ts: a' *)
TextTaskNoCategory == <<"t", "s", ":", " ", "a">>

(* 'ts: (b)' *)
TextTaskBlank == <<"t", "s", ":", " ", "(", "b", ")">>

(* 'ts: a ( )' *)
TextTaskBlankCategory == <<"t", "s", ":", " ", "a", " ", "(", " ", ")">>

(* 'ts: a (b) c' *)
TextTaskTrailing == <<"t", "s", ":", " ", "a", " ", "(", "b", ")", " ", "c">>

TaskTexts ==
    {TextTask, TextTaskPadded, TextTaskUpper, TextTaskNoCategory, TextTaskBlank, TextTaskBlankCategory, TextTaskTrailing}

PrefixTs == <<"t", "s", ":">>

HasPrefix(s, prefix) ==
    Len(s) >= Len(prefix) /\ SubText(s, 1, Len(prefix)) = prefix

(* re.match(r'^<prefix>\s*([^(]+)\s*\(([^)]+)\)\s*$', text.strip()) followed by *)
(* .strip() on both groups.  The "(" can only be the first one after the  *)
(* prefix, at least one character must stand before it, the ")" can only  *)
(* be the first one after it and, the text being stripped, the last       *)
(* character; the first group is what stands before the "(", less leading *)
(* whitespace.                                                            *)
MatchCommand(prefix, text) ==
    LET s == Strip(text)
        opens == { i \in (Len(prefix) + 1)..Len(s) : s[i] = "(" }
        open == Min(opens)
        closes == { j \in (open + 1)..Len(s) : s[j] = ")" }
        close == Min(closes)
    IN  IF /\ HasPrefix(s, prefix)
           /\ opens # {}
           /\ open > Len(prefix) + 1
           /\ closes # {}
           /\ close > open + 1
           /\ close = Len(s)
        THEN [matched |-> TRUE,
              task |-> Strip(SubText(s, Len(prefix) + 1, open - 1)),
              category |-> Strip(SubText(s, open + 1, close - 1))]
        ELSE [matched |-> FALSE]

(* the command is well formed: it matches and neither part is empty *)
Accepted(prefix, text) ==
    LET m == MatchCommand(prefix, text)
    IN  m.matched /\ m.task # <<>> /\ m.category # <<>>

(* sheet_state[title], 0 when the week has no sheet yet *)
SheetOf(title) ==
    LET known == { k \in 1..Len(sheet_state) : sheet_state[k].title = title }
    IN  IF known = {} THEN 0 ELSE sheet_state[Min(known)].id

(* the Google API calls append_to_sheet makes; either may raise *)
SheetFailures == {"none", "create_new_weekly_sheet", "append"}

(* what process_task_message returns; nothing when the exception of       *)
(* create_new_weekly_sheet passes through it                               *)
TaskReturn(text, fail) ==
    IF ~Accepted(PrefixTs, text) THEN [op |-> "process_task_message", value |-> FALSE]
    ELSE IF fail = "create_new_weekly_sheet" THEN [op |-> "process_task_message"]
    ELSE [op |-> "process_task_message", value |-> TRUE]

(* the effects of process_task_message(text, ...): a warning is posted for *)
(* a malformed command; otherwise append_to_sheet finds or creates the     *)
(* week's sheet and appends the row, logging and swallowing a failure of   *)
(* the append                                                              *)
process_task_message_calls(text, fail) ==
    LET m == MatchCommand(PrefixTs, text)
        title == get_week_start(today)
        new_sheet == SheetOf(title) = 0
        id == IF new_sheet THEN Len(sheets) + 1 ELSE SheetOf(title)
        sheets1 == IF new_sheet THEN Append(sheets, <<>>) ELSE sheets
        state1 == IF new_sheet
                  THEN Append(sheet_state, [title |-> title, id |-> id])
                  ELSE sheet_state
        row == [date |-> today, task |-> m.task, category |-> m.category]
    IN  IF ~m.matched
        THEN /\ posted' = Append(posted, "Invalid task format")
             /\ UNCHANGED <<sheet_state, sheets>>
             /\ raised' = "none"
        ELSE IF m.task = <<>> \/ m.category = <<>>
        THEN /\ posted' = Append(posted, "Task and category cannot be empty")
             /\ UNCHANGED <<sheet_state, sheets>>
             /\ raised' = "none"
        ELSE CASE fail = "create_new_weekly_sheet" ->
                      /\ new_sheet
                      /\ UNCHANGED <<posted, sheet_state, sheets>>
                      /\ raised' = "HttpError"
               [] fail = "append" ->
                      /\ sheets' = sheets1 /\ sheet_state' = state1
                      /\ UNCHANGED posted
                      /\ raised' = "none"
               [] OTHER ->
                      /\ sheets' = [sheets1 EXCEPT ![id] = Append(@, row)]
                      /\ sheet_state' = state1
                      /\ UNCHANGED posted
                      /\ raised' = "none"

process_task_message(text, fail) ==
    /\ pc = "serving"
    /\ Len(posted) + Writes(sheets) < MaxWrites
    /\ process_task_message_calls(text, fail)
    /\ result' = TaskReturn(text, fail)
    /\ UNCHANGED <<pc, slack_messages, arrival, start, end, tasks, first_tag_only,
                   tag_to_tasks, fetchVars, loggerVars, processed_events, calls,
                   requests>>

NextSheet ==
    \/ \E text \in TaskTexts, fail \in SheetFailures : process_task_message(text, fail)
    \/ next_day

SpecSheet == InitLogger /\ [][NextSheet]_vars

----------------------------------------------------------------------------
(* slack_task_logger: the /slack/events endpoint *)

EventLimit == 2
MaxEventId == 3
MaxRequests == 4

EventIds == 1..MaxEventId

(* 'tdo: a (b)' *)
TextTodo == <<"t", "d", "o", ":", " ", "a", " ", "(", "b", ")">>

(* 'its ok': holds "ts" but is no command *)
TextChat == <<"i", "t", "s", " ", "o", "k">>

PrefixTdo == <<"t", "d", "o", ":">>

(* str.lower() on the letters the texts are made of *)
Lower(s) ==
    [k \in 1..Len(s) |-> CASE s[k] = "T" -> "t" [] s[k] = "S" -> "s" [] OTHER -> s[k]]

(* sub in s *)
Contains(s, sub) ==
    \E i \in 1..(Len(s) - Len(sub) + 1) : SubText(s, i, i + Len(sub) - 1) = sub

(* the events Slack delivers: plain messages, an edited message (subtype),  *)
(* a bot's message, and an event that is no message                         *)
Events ==
    { [type |-> "message", subtype |-> FALSE, bot |-> FALSE, text |-> t] :
        t \in {TextTask, TextTaskUpper, TextTaskNoCategory, TextTodo, TextChat} }
    \cup { [type |-> "message", subtype |-> TRUE, bot |-> FALSE, text |-> TextTask],
           [type |-> "message", subtype |-> FALSE, bot |-> TRUE, text |-> TextTask],
           [type |-> "reaction_added", subtype |-> FALSE, bot |-> FALSE, text |-> <<>>] }

Requests ==
    { [type |-> "invalid_signature"], [type |-> "url_verification"] }
    \cup { [type |-> "event_callback", event_id |-> id, event |-> e] :
             id \in EventIds, e \in Events }

(* variant: after clear() the event id is not added again *)
RememberNoReAdd(seen, event_id) ==
    IF Cardinality(seen \cup {event_id}) > EventLimit THEN {} ELSE seen \cup {event_id}

(* processed_events.add(event_id), cleared down to the new id when the set *)
(* has outgrown the limit                                                  *)
Remember(seen, event_id) ==
    IF Cardinality(seen \cup {event_id}) > EventLimit
    THEN {event_id}
    ELSE seen \cup {event_id}

(* which branch a message text takes *)
Dispatch(text) ==
    LET lower == Lower(Strip(text))
    IN  IF Contains(lower, <<"t", "s">>) \/ Contains(lower, <<"t", "d", "o">>)
        THEN IF HasPrefix(lower, PrefixTs) THEN "process_task_message"
             ELSE IF HasPrefix(lower, PrefixTdo) THEN "process_todo_message"
             ELSE "warn"
        ELSE "none"

(* the handler an event reaches, "none" if it is skipped before *)
HandlerOf(event) ==
    IF event.type = "message" /\ ~event.subtype /\ ~event.bot
    THEN Dispatch(event.text)
    ELSE "none"

(* the effects of process_todo_message(text, ...) *)
process_todo_message_calls(text, fail) ==
    LET m == MatchCommand(PrefixTdo, text)
    IN  IF ~m.matched
        THEN /\ posted' = Append(posted, "Invalid todo format")
             /\ UNCHANGED <<state, docs, titles>>
             /\ raised' = "none"
        ELSE IF m.task = <<>> \/ m.category = <<>>
        THEN /\ posted' = Append(posted, "Todo and category cannot be empty")
             /\ UNCHANGED <<state, docs, titles>>
             /\ raised' = "none"
        ELSE /\ handle_tdo_calls(fail)
             /\ UNCHANGED posted

(* does the call of the Google API that fail names happen for this text *)
CanFail(handler, text, fail) ==
    \/ fail = "none"
    \/ handler = "process_task_message" /\ Accepted(PrefixTs, text) /\ fail \in SheetFailures
    \/ handler = "process_todo_message" /\ Accepted(PrefixTdo, text) /\ fail \in Failures

(* slack_events: one POST to /slack/events *)
slack_events(request, fail) ==
    /\ pc = "serving"
    /\ requests < MaxRequests
    /\ requests' = requests + 1
    /\ IF request.type # "event_callback"
       THEN /\ fail = "none"
            /\ result' = [op |-> "slack_events", event_id |-> 0,
                          status |-> IF request.type = "invalid_signature" THEN 403 ELSE 200]
            /\ raised' = "none"
            /\ UNCHANGED <<processed_events, calls, posted, sheet_state, sheets,
                           state, docs, titles>>
       ELSE LET event_id == request.event_id
                handler == HandlerOf(request.event)
                text == Strip(request.event.text)
            IN  IF event_id \in processed_events
                THEN /\ fail = "none"
                     /\ result' = [op |-> "slack_events", event_id |-> event_id, status |-> 200]
                     /\ raised' = "none"
                     /\ UNCHANGED <<processed_events, calls, posted, sheet_state, sheets,
                                    state, docs, titles>>
                ELSE /\ processed_events' = Remember(processed_events, event_id)
                     /\ CanFail(handler, text, fail)
                     /\ CASE handler = "process_task_message" ->
                                 /\ calls' = calls (+) SetToBag({event_id})
                                 /\ process_task_message_calls(text, fail)
                                 /\ UNCHANGED <<state, docs, titles>>
                          [] handler = "process_todo_message" ->
                                 /\ calls' = calls (+) SetToBag({event_id})
                                 /\ process_todo_message_calls(text, fail)
                                 /\ UNCHANGED <<sheet_state, sheets>>
                          [] handler = "warn" ->
                                 /\ posted' = Append(posted, "Invalid task format")
                                 /\ raised' = "none"
                                 /\ UNCHANGED <<calls, sheet_state, sheets, state, docs, titles>>
                          [] OTHER ->
                                 /\ raised' = "none"
                                 /\ UNCHANGED <<calls, posted, sheet_state, sheets,
                                                state, docs, titles>>
                     /\ result' = [op |-> "slack_events", event_id |-> event_id,
                                   status |-> IF raised' = "none" THEN 200 ELSE 500]
    /\ UNCHANGED <<pc, slack_messages, arrival, start, end, tasks, first_tag_only,
                   tag_to_tasks, fetchVars, today>>

(* the ways the Google API can fail while this request is served *)
FailuresOf(request) ==
    IF request.type # "event_callback" THEN {"none"}
    ELSE { fail \in Failures \cup SheetFailures :
             CanFail(HandlerOf(request.event), Strip(request.event.text), fail) }

NextEvents ==
    \E request \in Requests :
        \E fail \in FailuresOf(request) : slack_events(request, fail)

InitEvents == InitLogger /\ today = 1

SpecEvents == InitEvents /\ [][NextEvents]_vars

----------------------------------------------------------------------------
(* Properties of TaskAnalysis *)

Constructed == pc \in {"built", "called"}

(* how many times tag is named in tags *)
Occurrences(tag, tags) == Cardinality({ k \in 1..Len(tags) : tags[k] = tag })

Carries(t, tag) == Occurrences(tag, t.tags) > 0

TagsNamed(ts) ==
    UNION { { ts[i].tags[k] : k \in 1..Len(ts[i].tags) } : i \in 1..Len(ts) }

BucketsOf(tag) == { i \in 1..Len(tag_to_tasks) : tag_to_tasks[i].tag = tag }

RECURSIVE SumCarried(_, _)
SumCarried(ts, tag) ==
    IF ts = <<>> THEN 0
    ELSE (IF Carries(ts[1], tag) THEN Duration(ts[1]) ELSE 0) + SumCarried(Tail(ts), tag)

RECURSIVE SumPerOccurrence(_, _)
SumPerOccurrence(ts, tag) ==
    IF ts = <<>> THEN 0
    ELSE Occurrences(tag, ts[1].tags) * Duration(ts[1]) + SumPerOccurrence(Tail(ts), tag)

RECURSIVE SumBuckets(_)
SumBuckets(d) ==
    IF d = <<>> THEN 0 ELSE SumDurations(d[1].tasks) + SumBuckets(Tail(d))

(* C5: in FirstTagOnly mode the bucket durations add up to the durations   *)
(* of the input Tasks, and all_tasks_duration returns that sum.            *)
C5_Conservation ==
    (Constructed /\ first_tag_only)
        => /\ SumBuckets(tag_to_tasks) = SumDurations(tasks)
           /\ result.op = "all_tasks_duration" => result.value = SumDurations(tasks)

(* two Tasks of non-zero length in one bucket, summed by all_tasks_duration *)
C5_Witness ==
    /\ pc = "called"
    /\ first_tag_only
    /\ result.op = "all_tasks_duration"
    /\ Len(tasks) = 2
    /\ Len(tag_to_tasks) = 1
    /\ Duration(tasks[1]) # 0
    /\ Duration(tasks[2]) # 0
    /\ result.value = Duration(tasks[1]) + Duration(tasks[2])
    /\ result.value # 0

(* C6 as stated: in AllTags mode the bucket of every tag t holds the sum   *)
(* of the full durations of the Tasks that carry t.                        *)
C6_FullCopyPerTask ==
    (Constructed /\ ~first_tag_only)
        => \A tag \in TagsNamed(tasks) :
              /\ Cardinality(BucketsOf(tag)) = 1
              /\ \A i \in BucketsOf(tag) :
                    BucketDuration(tag_to_tasks[i]) = SumCarried(tasks, tag)

(* C6 amended: in AllTags mode a Task contributes one full-duration copy   *)
(* to a bucket for every occurrence of the bucket's tag in its tags, so    *)
(* the bucket of t holds the sum over the Tasks of (occurrences of t) x    *)
(* (full duration); never a split.                                         *)
C6_FullCopyPerOccurrence ==
    (Constructed /\ ~first_tag_only)
        => /\ \A tag \in TagsNamed(tasks) :
                 /\ Cardinality(BucketsOf(tag)) = 1
                 /\ \A i \in BucketsOf(tag) :
                       BucketDuration(tag_to_tasks[i]) = SumPerOccurrence(tasks, tag)
           /\ \A i \in 1..Len(tag_to_tasks) : tag_to_tasks[i].tag \in TagsNamed(tasks)

(* a Task tagged [b, a] of length 1: bucket b and bucket a both get 1 *)
C6_Witness ==
    /\ Constructed
    /\ ~first_tag_only
    /\ Len(tasks) = 1
    /\ tasks[1].tags = <<TagB, TagA>>
    /\ Duration(tasks[1]) = 1
    /\ Len(tag_to_tasks) = 2
    /\ \A i \in 1..2 : BucketDuration(tag_to_tasks[i]) = 1

(* C7: analysis_duration and __str__ of a TaskAnalysis with zero buckets   *)
(* fail with an EmptyAnalysisError; neither returns a value.               *)
C7_EmptyAnalysisFails ==
    (/\ pc = "called"
     /\ tag_to_tasks = <<>>
     /\ result.op \in {"analysis_duration", "__str__"})
        => raised = "EmptyAnalysisError"

MaxEnd(ts) == Max({ ts[i].end : i \in 1..Len(ts) })
MinStart(ts) == Min({ ts[i].start : i \in 1..Len(ts) })

(* C8: analysis_duration of a non-empty TaskAnalysis is the greatest end   *)
(* minus the least start over all Tasks, whatever the wall-clock time and  *)
(* the order of the Tasks in a bucket (stated here for Tasks with          *)
(* start <= end only).                                                     *)
C8_SpanOfAllTasks ==
    (/\ pc = "called"
     /\ tag_to_tasks # <<>>
     /\ \A i \in 1..Len(tasks) : tasks[i].start <= tasks[i].end
     /\ result.op = "analysis_duration")
        => result.value = MaxEnd(tasks) - MinStart(tasks)

(* C12: the Aggregator never mutates its input: constructing a            *)
(* TaskAnalysis, calling its operations, and changing the tags of a Task   *)
(* held in a bucket all leave the input list and every input Task's        *)
(* start, end and tags as they were.                                       *)
C12_InputNeverMutated == [][tasks' = tasks]_vars

(* a bucket's Task had a tag overwritten and no input Task shows it *)
C12_Witness ==
    /\ pc = "mutated"
    /\ Len(tasks) = 2
    /\ \E i \in 1..Len(tag_to_tasks) :
          \E k \in 1..Len(tag_to_tasks[i].tasks) :
             \E j \in 1..Len(tag_to_tasks[i].tasks[k].tags) :
                tag_to_tasks[i].tasks[k].tags[j] = TagZ
    /\ \A n \in 1..Len(tasks) : ~Carries(tasks[n], TagZ)
    /\ \E i \in 1..Len(tag_to_tasks) : Len(tag_to_tasks[i].tasks) = 2

(* the tags the constructor looks at, in the order it meets them *)
RECURSIVE TagsScanned(_, _)
TagsScanned(ts, fto) ==
    IF ts = <<>> THEN <<>>
    ELSE (IF fto THEN <<ts[1].tags[1]>> ELSE ts[1].tags) \o TagsScanned(Tail(ts), fto)

FirstPosition(tag, l) == Min({ k \in 1..Len(l) : l[k] = tag })

BucketTags == [i \in 1..Len(tag_to_tasks) |-> tag_to_tasks[i].tag]

(* C13: the buckets stand in the order in which their tags are first seen  *)
(* while the Tasks are scanned in their given order, in both modes, also   *)
(* after analysis_duration, all_tasks_duration and rendering; the report's *)
(* rows follow the same order.                                             *)
C13_FirstSeenOrder ==
    Constructed
        => LET scanned == TagsScanned(tasks, first_tag_only)
           IN  /\ { BucketTags[i] : i \in 1..Len(BucketTags) }
                     = { scanned[k] : k \in 1..Len(scanned) }
               /\ \A i, j \in 1..Len(BucketTags) :
                     i < j => FirstPosition(BucketTags[i], scanned)
                                < FirstPosition(BucketTags[j], scanned)
               /\ (result.op = "__str__" /\ raised = "none")
                     => [i \in 1..Len(result.rows) |-> result.rows[i].tag] = BucketTags

(* tag b met before tag a: bucket b first, also in the rendered rows *)
C13_Witness ==
    /\ pc = "called"
    /\ result.op = "__str__"
    /\ raised = "none"
    /\ Len(tasks) = 2
    /\ tasks[1].tags = <<TagB, TagA>>
    /\ tasks[2].tags = <<TagA>>
    /\ BucketTags = <<TagB, TagA>>
    /\ Len(result.rows) = 2

(* the events of the scenario and its window [09:00, 12:00] *)
Scenario ==
    /\ arrival = <<[timestamp |-> 1, text |-> TextCoding],
                   [timestamp |-> 4, text |-> TextMeeting],
                   [timestamp |-> 5, text |-> TextNoTags]>>
    /\ start = 1
    /\ end = 7

(* C17: the scenario yields exactly the Tasks 09:00-10:30 [coding] and     *)
(* 10:30-11:00 [meeting]; under FirstTagOnly coding lasts 1h30m, meeting   *)
(* 30m, analysis_duration is 2h, and the report shows 75.00%, 25.00% and a *)
(* total of 100.00%.                                                       *)
C17_Scenario ==
    (Scenario /\ pc # "input")
        => /\ tasks = <<[start |-> 1, end |-> 4, tags |-> <<Coding>>],
                        [start |-> 4, end |-> 5, tags |-> <<Meeting>>]>>
           /\ (Constructed /\ first_tag_only)
                 => /\ Len(tag_to_tasks) = 2
                    /\ tag_to_tasks[1].tag = Coding
                    /\ BucketDuration(tag_to_tasks[1]) = 3
                    /\ tag_to_tasks[2].tag = Meeting
                    /\ BucketDuration(tag_to_tasks[2]) = 1
           /\ (pc = "called" /\ first_tag_only /\ result.op = "analysis_duration")
                 => result.value = 4
           /\ (pc = "called" /\ first_tag_only /\ result.op = "__str__")
                 => /\ raised = "none"
                    /\ result.rows =
                          <<[tag |-> Coding, duration |-> 3, percent |-> 7500],
                            [tag |-> Meeting, duration |-> 1, percent |-> 2500]>>
                    /\ result.total = [duration |-> 4, percent |-> 10000]

(* the report of the scenario has been rendered *)
C17_Witness ==
    /\ Scenario
    /\ pc = "called"
    /\ first_tag_only
    /\ result.op = "__str__"
    /\ raised = "none"
    /\ Len(result.rows) = 2

(* the report was rendered, from Tasks of positive length inside a window  *)
(* of positive length                                                      *)
RenderedInWindow ==
    /\ pc = "called"
    /\ result.op = "__str__"
    /\ raised = "none"
    /\ start < end
    /\ tasks # <<>>
    /\ \A i \in 1..Len(tasks) : tasks[i].start < tasks[i].end
    /\ WithinWindow(tasks)

(* every half hour of the window lies in a kept Task *)
WindowCovered ==
    \A t \in start..(end - 1) :
        \E i \in 1..Len(tasks) : tasks[i].start <= t /\ t + 1 <= tasks[i].end

(* C16 as stated: the total is 100% only when every Task has exactly one   *)
(* tag and the whole window is covered by kept Tasks.                      *)
C16_HundredOnlyWhenCovered ==
    (RenderedInWindow /\ result.total.percent = 10000)
        => /\ \A i \in 1..Len(tasks) : Len(tasks[i].tags) = 1
           /\ WindowCovered

(* each tag after the first of a Task counts the Task once more *)
RECURSIVE ExtraCount(_)
ExtraCount(ts) ==
    IF ts = <<>> THEN 0
    ELSE (Len(ts[1].tags) - 1) * Duration(ts[1]) + ExtraCount(Tail(ts))

(* C16: the total percent is all_tasks_duration over the span from the     *)
(* earliest kept Task start to the latest kept Task end (not the window),  *)
(* rounded to two decimals.  For Tasks of non-negative length that do not  *)
(* overlap, rendered at or after the earliest start: all_tasks_duration is *)
(* the span minus the gaps between the Tasks, plus (AllTags only) one      *)
(* extra count per further tag; the total shows 100.00 exactly when        *)
(* all_tasks_duration is within 0.005% of the span; so under FirstTagOnly  *)
(* gap-free Tasks always total 100.00, whatever their tags and whatever    *)
(* part of the window they leave uncovered.                                *)
C16_TotalAgainstTaskSpan ==
    (/\ pc = "called"
     /\ result.op = "__str__"
     /\ raised = "none"
     /\ tasks # <<>>
     /\ \A i \in 1..Len(tasks) : tasks[i].start <= tasks[i].end
     /\ AdjacentDisjoint(tasks))
        => LET span == MaxEnd(tasks) - MinStart(tasks)
               gaps == span - SumDurations(tasks)
               all == result.total.duration
           IN  /\ gaps >= 0
               /\ all = span - gaps + (IF first_tag_only THEN 0 ELSE ExtraCount(tasks))
               /\ (result.total.percent = 10000) <=> (20000 * Abs(all - span) <= span)
               /\ (first_tag_only /\ gaps = 0) => result.total.percent = 10000

(* FirstTagOnly, a Task with two tags, the end of the window not covered,  *)
(* and a total of 100.00                                                   *)
C16_Witness ==
    /\ RenderedInWindow
    /\ first_tag_only
    /\ Len(tasks) = 2
    /\ Len(tasks[1].tags) = 2
    /\ tasks[2].end < end
    /\ result.total.percent = 10000

Fetched == pc = "input" /\ channel # <<>> /\ start <= end

(* C19 as stated: the fetch returns only events inside [oldest, latest]. *)
C19_OnlyWithinWindow ==
    Fetched
        => \A i \in 1..Len(slack_messages) :
              start <= slack_messages[i].timestamp /\ slack_messages[i].timestamp <= end

(* C19: for every channel history and every pagination of it, the fetch    *)
(* returns the events inside [oldest, latest], newest first, followed by   *)
(* the newest event older than oldest when the channel has one             *)
(* (preceeding_older_count = 1), and nothing else.                         *)
C19_WindowPlusOnePreceding ==
    Fetched
        => LET Inside(m) == start <= m.timestamp /\ m.timestamp <= end
               Older(m) == m.timestamp < start
               older == SelectSeq(channel, Older)
           IN  slack_messages =
                   SelectSeq(channel, Inside)
                       \o (IF older = <<>> THEN <<>> ELSE <<older[1]>>)

(* two events older than the window, one inside, fetched in two responses *)
C19_Witness ==
    /\ Fetched
    /\ Len(channel) = 3
    /\ channel[2].timestamp < start
    /\ Len(slack_messages) = 2
    /\ next_cursor > 0

(* C20: reading each todo document top to bottom, every entry comes after  *)
(* the header of the day it was logged on, with no other day's header in   *)
(* between.                                                                *)
C20_EntryUnderItsDayHeader ==
    \A id \in 1..Len(docs) :
        \A p \in 1..Len(docs[id]) :
            docs[id][p].kind = "entry"
                => \E h \in 1..(p - 1) :
                      /\ docs[id][h] = Header(docs[id][p].date)
                      /\ \A q \in (h + 1)..(p - 1) : docs[id][q].kind = "entry"

(* C23: over any sequence of handle_tdo calls, a weekly document holds the *)
(* header of a date at most once, and every entry is in the document made  *)
(* for the week of the call that wrote it.                                 *)
C23_HeaderOnceEntryInItsWeek ==
    \A id \in 1..Len(docs) :
        /\ \A date \in 1..MaxDay :
              Cardinality({ p \in 1..Len(docs[id]) : docs[id][p] = Header(date) }) <= 1
        /\ \A p \in 1..Len(docs[id]) :
              docs[id][p].kind = "entry"
                  => get_week_start(docs[id][p].date) = titles[id]

RowCount == Inserted(sheets)

(* C22: process_task_message returns True only if the row was actually     *)
(* appended to the weekly sheet; on a malformed text or a failed write it  *)
(* returns False.                                                          *)
C22_TrueOnlyIfAppended ==
    [][(/\ today' = today
        /\ result'.op = "process_task_message"
        /\ "value" \in DOMAIN result')
          => (result'.value <=> RowCount' = RowCount + 1)]_vars

(* C21: over any sequence of deliveries, an event id triggers              *)
(* process_task_message / process_todo_message at most once.               *)
C21_AtMostOncePerEventId ==
    \A event_id \in EventIds : CopiesIn(event_id, calls) <= 1

(* C25: after every handled request processed_events holds at most the     *)
(* limit of event ids (1000 in the code), and the id of the event just     *)
(* handled is one of them.                                                 *)
C25_BoundedAndRemembersLast ==
    /\ Cardinality(processed_events) <= EventLimit
    /\ (result.op = "slack_events" /\ result.event_id # 0)
          => result.event_id \in processed_events

(* the set was full, a further event arrived and was handled *)
C25_Witness ==
    /\ result.op = "slack_events"
    /\ processed_events = {result.event_id}
    /\ requests = EventLimit + 1
    /\ BagCardinality(calls) = EventLimit + 1

(* the Tasks held by the buckets of the TaskAnalysis *)
AnalysedTasks ==
    UNION { { tag_to_tasks[i].tasks[k] : k \in 1..Len(tag_to_tasks[i].tasks) } :
              i \in 1..Len(tag_to_tasks) }

(* the first Task is the one of the message older than the window: it runs *)
(* from the window start to the first message inside the window (to the    *)
(* window end if there is none) and carries the older message's tags       *)
OlderMessageAttributed ==
    LET Older(m) == m.timestamp < start
        Inside(m) == m.timestamp >= start
        older == SelectSeq(slack_messages, Older)
        inside == SelectSeq(slack_messages, Inside)
    IN  (older # <<>> /\ Tagged(older[1]))
            => /\ tasks # <<>>
               /\ tasks[1] = [start |-> start,
                              end |-> IF inside = <<>> THEN end ELSE inside[1].timestamp,
                              tags |-> extract_tags_from_string(older[1].text)]

(* C24: in audit_slack every Task of the TaskAnalysis satisfies            *)
(* start <= task.start <= task.end <= end, and the time from the window    *)
(* start to the first message inside the window goes to the tags of the    *)
(* preceding older message.                                                *)
C24_AuditTasksInsideWindow ==
    pc = "built"
        => /\ \A t \in AnalysedTasks :
                 start <= t.start /\ t.start <= t.end /\ t.end <= end
           /\ OlderMessageAttributed

====
